---- MODULE Spec2Model ----
(***************************************************************************)
(* A model of bittyset's BitSet<T> (src/src/lib.rs, src/src/impls.rs,      *)
(* src/src/block.rs), instantiated at T = u8.                              *)
(*                                                                         *)
(* A BitSet is a record [vec, cap, num_bits]: vec is the Vec<T> of blocks  *)
(* (a sequence of integers in 0..BlockMax; Rust's vec[i] is vec[i + 1]     *)
(* here), cap is the Vec's capacity in blocks, num_bits is the field of    *)
(* the same name.                                                          *)
(*                                                                         *)
(* The state machine is a property test in the style of tests/bitset.rs:   *)
(* it builds two sets, a and b, by any calls of the mutating API (pc =     *)
(* "build"), then makes one observation of them and is done (pc = "done"). *)
(* An observation changes neither set, so stopping after it loses no state *)
(* of a and b.  Iterating over a is an observation of several steps (pc =  *)
(* "iter" until next has returned None MaxNone times).  A last insert or   *)
(* remove on a, kept with the set it was called on, is an observation too. *)
(* res records the last call and what it returned.                         *)
(***************************************************************************)
EXTENDS Integers, Sequences, FiniteSets, TLC

VARIABLES a, b, res, pc

vars == <<a, b, res, pc>>

(***************************************************************************)
(* Bounds of the model.                                                    *)
(***************************************************************************)
\* Largest index the model inserts, removes or queries.
MaxValue == 15

\* Longest index sequence handed to extend / collect.
MaxLen == 2

\* Number of calls of Iter::next that return None before an iteration is
\* left alone.
MaxNone == 2

\* Width in bits of the index type usize on the modelled target (16 is the
\* narrowest Rust has).
usize_BITS == 16

(***************************************************************************)
(* The block type: u8.                                                     *)
(***************************************************************************)
NUM_BITS == 8

BlockMax == 2 ^ NUM_BITS - 1

zero == 0

one == 1

Max(x, y) == IF x < y THEN y ELSE x

Min(x, y) == IF x < y THEN x ELSE y

RECURSIVE blk_and(_, _)
\* x & y on blocks
blk_and(x, y) ==
  IF x = 0 \/ y = 0 THEN 0
  ELSE (x % 2) * (y % 2) + 2 * blk_and(x \div 2, y \div 2)

RECURSIVE blk_or(_, _)
\* x | y on blocks
blk_or(x, y) ==
  IF x = 0 THEN y
  ELSE IF y = 0 THEN x
  ELSE Max(x % 2, y % 2) + 2 * blk_or(x \div 2, y \div 2)

RECURSIVE blk_xor(_, _)
\* x ^ y on blocks
blk_xor(x, y) ==
  IF x = 0 THEN y
  ELSE IF y = 0 THEN x
  ELSE (((x % 2) + (y % 2)) % 2) + 2 * blk_xor(x \div 2, y \div 2)

\* !x on a block of NUM_BITS bits
blk_not(x) == BlockMax - x

\* x & !y on blocks
blk_and_not(x, y) == blk_and(x, blk_not(y))

\* x << n on a block: the bits shifted past the width are lost
shl(x, n) == (x * 2 ^ n) % (BlockMax + 1)

RECURSIVE count_ones(_)
count_ones(x) == IF x = 0 THEN 0 ELSE (x % 2) + count_ones(x \div 2)

RECURSIVE bit_length(_)
bit_length(x) == IF x = 0 THEN 0 ELSE 1 + bit_length(x \div 2)

leading_zeros(x) == NUM_BITS - bit_length(x)

RECURSIVE trailing_zeros(_)
trailing_zeros(x) ==
  IF x = 0 THEN NUM_BITS
  ELSE IF x % 2 = 1 THEN 0
  ELSE 1 + trailing_zeros(x \div 2)

(***************************************************************************)
(* Vec<T>: the operations of the standard vector the code calls.  A vector *)
(* that has to grow gets exactly the capacity it needs; its capacity never *)
(* shrinks.                                                                *)
(***************************************************************************)
vec_reserve(cap, len) == IF cap < len THEN len ELSE cap

\* vec.resize(n, val)
vec_resize(vec, n, val) ==
  IF n <= Len(vec) THEN SubSeq(vec, 1, n)
  ELSE vec \o [i \in 1..(n - Len(vec)) |-> val]

\* vec.truncate(n): no effect when n >= vec.len()
vec_truncate(vec, n) == IF n < Len(vec) THEN SubSeq(vec, 1, n) ELSE vec

\* faulty variant of slice_from: starts one element late
slice_from_late(vec, from) == SubSeq(vec, from + 2, Len(vec))

\* &vec[from..]: panics (no value here) when from > vec.len()
slice_from(vec, from) ==
  CASE from <= Len(vec) -> SubSeq(vec, from + 1, Len(vec))

\* &vec[..to]: panics (no value here) when to > vec.len()
slice_to(vec, to) ==
  CASE to <= Len(vec) -> SubSeq(vec, 1, to)

(***************************************************************************)
(* BitSet<T>                                                               *)
(***************************************************************************)
compute_num_blocks(num_bits) == (num_bits + NUM_BITS - 1) \div NUM_BITS

BitSet(vec, cap, num_bits) == [vec |-> vec, cap |-> cap, num_bits |-> num_bits]

new == BitSet(<<>>, 0, 0)

\* #[derive(Default)]
default == BitSet(<<>>, 0, 0)

with_capacity(capacity) == BitSet(<<>>, compute_num_blocks(capacity), 0)

\* #[derive(Clone)]: the clone's vector is allocated for its length
clone(s) == BitSet(s.vec, Len(s.vec), s.num_bits)

\* the loop of compact, `for i in (0..self.vec.len()).rev()`, entered at
\* block index i: the index of the block it stops at, the highest one at or
\* below i with count_ones() != 0, or -1 when it runs to its end
last_nonzero(vec, i) ==
  LET stops == {j \in 0..i : count_ones(vec[j + 1]) # 0}
  IN  IF stops = {} THEN -1
      ELSE CHOOSE j \in stops : \A k \in stops : k <= j

\* faulty variant of compact: takes the whole last block as the length
compact_whole_block(s) ==
  LET i == last_nonzero(s.vec, Len(s.vec) - 1)
  IN  IF i >= 0
      THEN BitSet(vec_truncate(s.vec, i + 1), s.cap, (i + 1) * NUM_BITS)
      ELSE BitSet(<<>>, s.cap, 0)

\* faulty variant of compact: counts the zeros at the wrong end of the block
compact_trailing_zeros(s) ==
  LET i == last_nonzero(s.vec, Len(s.vec) - 1)
  IN  IF i >= 0
      THEN BitSet(vec_truncate(s.vec, i + 1), s.cap,
                  (i + 1) * NUM_BITS - trailing_zeros(s.vec[i + 1]))
      ELSE BitSet(<<>>, s.cap, 0)

\* faulty variant of compact: keeps one block of an emptied set
compact_keep_block(s) ==
  LET i == last_nonzero(s.vec, Len(s.vec) - 1)
  IN  IF i >= 0
      THEN BitSet(vec_truncate(s.vec, i + 1), s.cap,
                  (i + 1) * NUM_BITS - leading_zeros(s.vec[i + 1]))
      ELSE IF Len(s.vec) > 0 THEN BitSet(<<zero>>, s.cap, NUM_BITS)
      ELSE BitSet(<<>>, s.cap, 0)

\* faulty variant of compact: truncates the vector one block too short
compact_drop_block(s) ==
  LET i == last_nonzero(s.vec, Len(s.vec) - 1)
  IN  IF i >= 0
      THEN BitSet(vec_truncate(s.vec, i), s.cap,
                  (i + 1) * NUM_BITS - leading_zeros(s.vec[i + 1]))
      ELSE BitSet(<<>>, s.cap, 0)

compact(s) ==
  LET i == last_nonzero(s.vec, Len(s.vec) - 1)
  IN  IF i >= 0
      THEN BitSet(vec_truncate(s.vec, i + 1), s.cap,
                  (i + 1) * NUM_BITS - leading_zeros(s.vec[i + 1]))
      ELSE BitSet(<<>>, s.cap, 0)

clear(s) == BitSet(<<>>, s.cap, 0)

contains_unchecked(s, value) ==
  blk_and(s.vec[value \div NUM_BITS + 1], shl(one, value % NUM_BITS)) # zero

contains(s, value) ==
  IF value >= s.num_bits THEN FALSE ELSE contains_unchecked(s, value)

\* faulty variant of insert: reports whether the set grew, not whether the
\* bit was clear
insert_grew(s, value) ==
  LET nblks == compute_num_blocks(value + 1)
      s1 == IF Len(s.vec) < nblks
            THEN BitSet(vec_resize(s.vec, nblks, zero),
                        vec_reserve(s.cap, nblks), s.num_bits)
            ELSE s
      s2 == IF s1.num_bits < value + 1
            THEN BitSet(s1.vec, s1.cap, value + 1)
            ELSE s1
      s3 == BitSet([s2.vec EXCEPT ![value \div NUM_BITS + 1] =
                      blk_or(@, shl(one, value % NUM_BITS))],
                   s2.cap, s2.num_bits)
  IN  [set |-> s3, ret |-> s.num_bits < value + 1]

\* insert(value): [set |-> the set afterwards, ret |-> the value returned]
insert(s, value) ==
  LET nblks == compute_num_blocks(value + 1)
      s1 == IF Len(s.vec) < nblks
            THEN BitSet(vec_resize(s.vec, nblks, zero),
                        vec_reserve(s.cap, nblks), s.num_bits)
            ELSE s
      s2 == IF s1.num_bits < value + 1
            THEN BitSet(s1.vec, s1.cap, value + 1)
            ELSE s1
      present == contains_unchecked(s2, value)
      s3 == BitSet([s2.vec EXCEPT ![value \div NUM_BITS + 1] =
                      blk_or(@, shl(one, value % NUM_BITS))],
                   s2.cap, s2.num_bits)
  IN  [set |-> s3, ret |-> ~present]

usize_MAX == 2 ^ usize_BITS - 1

\* a usize result x of + or - taken modulo 2^usize_BITS, as a build without
\* overflow checks computes it
wrapping(x) ==
  IF x > usize_MAX THEN x - (usize_MAX + 1)
  ELSE IF x < 0 THEN x + usize_MAX + 1
  ELSE x

\* x is no usize: a build with overflow checks panics on it
overflows(x) == x > usize_MAX \/ x < 0

\* insert(value) in usize arithmetic, on a build with overflow checks
\* (overflow_checks, the debug profile) or without (the release profile):
\* [set |-> the set the call leaves, ret |-> the value returned, panicked |->
\* the call has panicked instead of returning].  The statements run in the
\* order of the source; an arithmetic overflow panics under overflow checks
\* and wraps without, vec[i] panics for i >= vec.len() on every build.
insert_usize(s, value, overflow_checks) ==
  LET v1 == value + 1
      sum == wrapping(v1) + NUM_BITS
      dec == wrapping(sum) - 1
      nblks == wrapping(dec) \div NUM_BITS
      s1 == IF Len(s.vec) < nblks
            THEN BitSet(vec_resize(s.vec, nblks, zero),
                        vec_reserve(s.cap, nblks), s.num_bits)
            ELSE s
      s2 == IF s1.num_bits < wrapping(v1)
            THEN BitSet(s1.vec, s1.cap, wrapping(v1))
            ELSE s1
  IN  IF overflow_checks /\ (overflows(v1) \/ overflows(sum) \/ overflows(dec))
      THEN [set |-> s, ret |-> FALSE, panicked |-> TRUE]
      ELSE IF value \div NUM_BITS >= Len(s2.vec)
      THEN [set |-> s2, ret |-> FALSE, panicked |-> TRUE]
      ELSE LET present == contains_unchecked(s2, value)
               s3 == BitSet([s2.vec EXCEPT ![value \div NUM_BITS + 1] =
                               blk_or(@, shl(one, value % NUM_BITS))],
                            s2.cap, s2.num_bits)
           IN  [set |-> s3, ret |-> ~present, panicked |-> FALSE]

\* faulty variant of remove: never compacts
remove_no_compact(s, value) ==
  IF value >= s.num_bits THEN [set |-> s, ret |-> FALSE]
  ELSE LET present == contains_unchecked(s, value)
           s1 == BitSet([s.vec EXCEPT ![value \div NUM_BITS + 1] =
                           blk_and(@, blk_not(shl(one, value % NUM_BITS)))],
                        s.cap, s.num_bits)
       IN  [set |-> s1, ret |-> present]

\* faulty variant of remove: flips the bit instead of clearing it
remove_flip(s, value) ==
  IF value >= s.num_bits THEN [set |-> s, ret |-> FALSE]
  ELSE LET present == contains_unchecked(s, value)
           s1 == BitSet([s.vec EXCEPT ![value \div NUM_BITS + 1] =
                           blk_xor(@, shl(one, value % NUM_BITS))],
                        s.cap, s.num_bits)
           s2 == IF present /\ value + 1 = s.num_bits THEN compact(s1) ELSE s1
       IN  [set |-> s2, ret |-> present]

\* remove(value): [set |-> the set afterwards, ret |-> the value returned]
remove(s, value) ==
  IF value >= s.num_bits THEN [set |-> s, ret |-> FALSE]
  ELSE LET present == contains_unchecked(s, value)
           s1 == BitSet([s.vec EXCEPT ![value \div NUM_BITS + 1] =
                           blk_and(@, blk_not(shl(one, value % NUM_BITS)))],
                        s.cap, s.num_bits)
           s2 == IF present /\ value + 1 = s.num_bits THEN compact(s1) ELSE s1
       IN  [set |-> s2, ret |-> present]

RECURSIVE extend(_, _)
\* Extend::extend: insert every element of the sequence, in order
extend(s, iter) ==
  IF iter = <<>> THEN s ELSE extend(insert(s, Head(iter)).set, Tail(iter))

\* FromIterator::from_iter
from_iter(iter) == extend(default, iter)

(***************************************************************************)
(* The set algebra of impls.rs.  Each operator is one op_impl! expansion:  *)
(* a function on (lhs, rhs_vec, rhs_nbits) that updates lhs in place, and  *)
(* four trait impls built from it by the macros op_impl_assign_body,       *)
(* op_impl_ref_body and op_impl_assign_ref_body.                           *)
(***************************************************************************)
\* `lhs.vec[i] $op rhs_vec[i]` for the assignment operator of each function
blk_op(op, x, y) ==
  CASE op = "|=" -> blk_or(x, y)
    [] op = "&=" -> blk_and(x, y)
    [] op = "^=" -> blk_xor(x, y)
    [] op = "&= !" -> blk_and_not(x, y)

\* for i in 0..nblks { lhs_vec[i] op= rhs_vec[i] }: indexing past the end of
\* either vector panics (no value here)
for_blocks(lhs_vec, rhs_vec, nblks, op) ==
  CASE nblks <= Len(lhs_vec) /\ nblks <= Len(rhs_vec) ->
    [i \in 1..Len(lhs_vec) |->
       IF i <= nblks THEN blk_op(op, lhs_vec[i], rhs_vec[i]) ELSE lhs_vec[i]]

\* faulty variant of bitor_fn: rounds the number of blocks down
bitor_fn_round_down(lhs, rhs_vec, rhs_nbits) ==
  LET nblks == Min(lhs.num_bits, rhs_nbits) \div NUM_BITS
  IN  BitSet(for_blocks(lhs.vec, rhs_vec, nblks, "|="), lhs.cap, lhs.num_bits)

\* the function of op = (BitOr, bitor, |=)
bitor_fn(lhs, rhs_vec, rhs_nbits) ==
  LET nblks == compute_num_blocks(Min(lhs.num_bits, rhs_nbits))
  IN  BitSet(for_blocks(lhs.vec, rhs_vec, nblks, "|="), lhs.cap, lhs.num_bits)

\* faulty variant of bitand_fn: does not compact
bitand_fn_no_compact(lhs, rhs_vec, rhs_nbits) ==
  LET nblks == compute_num_blocks(Min(lhs.num_bits, rhs_nbits))
  IN  BitSet(for_blocks(lhs.vec, rhs_vec, nblks, "&="), lhs.cap, lhs.num_bits)

\* the function of op = (BitAnd, bitand, &=)
bitand_fn(lhs, rhs_vec, rhs_nbits) ==
  LET nblks == compute_num_blocks(Min(lhs.num_bits, rhs_nbits))
  IN  compact(BitSet(for_blocks(lhs.vec, rhs_vec, nblks, "&="),
                     lhs.cap, lhs.num_bits))

\* faulty variant of bitxor_fn: does not compact
bitxor_fn_no_compact(lhs, rhs_vec, rhs_nbits) ==
  LET nblks == compute_num_blocks(Min(lhs.num_bits, rhs_nbits))
  IN  BitSet(for_blocks(lhs.vec, rhs_vec, nblks, "^="), lhs.cap, lhs.num_bits)

\* the function of op = (BitXor, bitxor, ^=)
bitxor_fn(lhs, rhs_vec, rhs_nbits) ==
  LET nblks == compute_num_blocks(Min(lhs.num_bits, rhs_nbits))
  IN  compact(BitSet(for_blocks(lhs.vec, rhs_vec, nblks, "^="),
                     lhs.cap, lhs.num_bits))

\* faulty variant of sub_fn: does not compact
sub_fn_no_compact(lhs, rhs_vec, rhs_nbits) ==
  LET nblks == compute_num_blocks(Min(lhs.num_bits, rhs_nbits))
  IN  BitSet(for_blocks(lhs.vec, rhs_vec, nblks, "&= !"),
             lhs.cap, lhs.num_bits)

\* the function of op = (Sub, sub, -=)
sub_fn(lhs, rhs_vec, rhs_nbits) ==
  LET nblks == compute_num_blocks(Min(lhs.num_bits, rhs_nbits))
  IN  compact(BitSet(for_blocks(lhs.vec, rhs_vec, nblks, "&= !"),
                     lhs.cap, lhs.num_bits))

\* $fn(lhs, rhs_vec, rhs_nbits), for the function the macro is given
call(fn, lhs, rhs_vec, rhs_nbits) ==
  CASE fn = "bitor_fn" -> bitor_fn(lhs, rhs_vec, rhs_nbits)
    [] fn = "bitand_fn" -> bitand_fn(lhs, rhs_vec, rhs_nbits)
    [] fn = "bitxor_fn" -> bitxor_fn(lhs, rhs_vec, rhs_nbits)
    [] fn = "sub_fn" -> sub_fn(lhs, rhs_vec, rhs_nbits)

\* `x $swap_cond y`; "none" is the macro arm without a swap_cond
swap_cond(c, x, y) ==
  CASE c = "<" -> x < y
    [] c = ">" -> x > y
    [] c = "none" -> FALSE

\* $assign_method(&mut self, mut rhs: BitSet<T>): the value self ends with
op_impl_assign_body(self, rhs, fn, c) ==
  IF swap_cond(c, self.num_bits, rhs.num_bits)
  THEN call(fn, rhs, self.vec, self.num_bits)
  ELSE call(fn, self, rhs.vec, rhs.num_bits)

\* $method(self: &BitSet<T>, rhs: &BitSet<T>) -> BitSet<T>
op_impl_ref_body(self, rhs, fn, c) ==
  IF swap_cond(c, self.num_bits, rhs.num_bits)
  THEN call(fn, clone(rhs), self.vec, self.num_bits)
  ELSE call(fn, clone(self), rhs.vec, rhs.num_bits)

\* faulty variant of op_impl_assign_ref_body: reads self.num_bits for
\* rhs_nbits after it has been overwritten
op_impl_assign_ref_body_late(self, rhs, fn, c) ==
  IF swap_cond(c, self.num_bits, rhs.num_bits)
  THEN LET rhs_nbits == rhs.num_bits
           vec1 == IF swap_cond(c, 0, 1)
                   THEN self.vec \o slice_from(rhs.vec, Len(self.vec))
                   ELSE vec_truncate(self.vec, Len(rhs.vec))
       IN  call(fn, BitSet(vec1, vec_reserve(self.cap, Len(vec1)), rhs.num_bits),
              rhs.vec, rhs_nbits)
  ELSE call(fn, self, rhs.vec, rhs.num_bits)

\* $assign_method(&mut self, rhs: &BitSet<T>): the value self ends with
op_impl_assign_ref_body(self, rhs, fn, c) ==
  IF swap_cond(c, self.num_bits, rhs.num_bits)
  THEN LET rhs_nbits == self.num_bits
           vec1 == IF swap_cond(c, 0, 1)
                   THEN self.vec \o slice_from(rhs.vec, Len(self.vec))
                   ELSE vec_truncate(self.vec, Len(rhs.vec))
       IN  call(fn, BitSet(vec1, vec_reserve(self.cap, Len(vec1)), rhs.num_bits),
              rhs.vec, rhs_nbits)
  ELSE call(fn, self, rhs.vec, rhs.num_bits)

\* self |= rhs, self | rhs, &self | &rhs, self |= &rhs
bitor_assign(self, rhs) == op_impl_assign_body(self, rhs, "bitor_fn", "<")

bitor(self, rhs) == bitor_assign(self, rhs)

bitor_ref(self, rhs) == op_impl_ref_body(self, rhs, "bitor_fn", "<")

bitor_assign_ref(self, rhs) == op_impl_assign_ref_body(self, rhs, "bitor_fn", "<")

\* self &= rhs, self & rhs, &self & &rhs, self &= &rhs
bitand_assign(self, rhs) == op_impl_assign_body(self, rhs, "bitand_fn", ">")

bitand(self, rhs) == bitand_assign(self, rhs)

bitand_ref(self, rhs) == op_impl_ref_body(self, rhs, "bitand_fn", ">")

bitand_assign_ref(self, rhs) == op_impl_assign_ref_body(self, rhs, "bitand_fn", ">")

\* self ^= rhs, self ^ rhs, &self ^ &rhs, self ^= &rhs
bitxor_assign(self, rhs) == op_impl_assign_body(self, rhs, "bitxor_fn", "<")

bitxor(self, rhs) == bitxor_assign(self, rhs)

\* faulty variant of bitxor_ref: never swaps the operands
bitxor_ref_no_swap(self, rhs) == op_impl_ref_body(self, rhs, "bitxor_fn", "none")

bitxor_ref(self, rhs) == op_impl_ref_body(self, rhs, "bitxor_fn", "<")

bitxor_assign_ref(self, rhs) == op_impl_assign_ref_body(self, rhs, "bitxor_fn", "<")

\* self -= rhs, self - rhs, &self - &rhs, self -= &rhs
sub_assign(self, rhs) == op_impl_assign_body(self, rhs, "sub_fn", "none")

sub(self, rhs) == sub_assign(self, rhs)

\* faulty variant of sub_ref: swaps the operands as union does
sub_ref_swapping(self, rhs) == op_impl_ref_body(self, rhs, "sub_fn", "<")

sub_ref(self, rhs) == op_impl_ref_body(self, rhs, "sub_fn", "none")

sub_assign_ref(self, rhs) == op_impl_assign_ref_body(self, rhs, "sub_fn", "none")

union(self, other) == bitor_ref(self, other)

union_with(self, other) == bitor_assign_ref(self, other)

intersection(self, other) == bitand_ref(self, other)

intersect_with(self, other) == bitand_assign_ref(self, other)

difference(self, other) == sub_ref(self, other)

difference_with(self, other) == sub_assign_ref(self, other)

symmetric_difference(self, other) == bitxor_ref(self, other)

symmetric_difference_with(self, other) == bitxor_assign_ref(self, other)

\* for i in 0..nblks { if self.vec[i] & !other.vec[i] != 0 { return false } }
is_subset_blocks(self, other, nblks) ==
  \A i \in 1..nblks : blk_and(self.vec[i], blk_not(other.vec[i])) = zero

\* faulty variant of is_subset: returns early on equal lengths too
is_subset_strict(self, other) ==
  IF self.num_bits >= other.num_bits THEN FALSE
  ELSE is_subset_blocks(self, other, compute_num_blocks(self.num_bits))

is_subset(self, other) ==
  IF self.num_bits > other.num_bits THEN FALSE
  ELSE is_subset_blocks(self, other, compute_num_blocks(self.num_bits))

\* faulty variant of is_proper_subset: `equal` starts true whatever the
\* block counts are
is_proper_subset_same_blocks(self, other) ==
  IF self.num_bits > other.num_bits THEN FALSE
  ELSE LET nblks1 == compute_num_blocks(self.num_bits)
           equal == \A i \in 1..nblks1 : self.vec[i] = other.vec[i]
       IN  IF ~is_subset_blocks(self, other, nblks1) THEN FALSE ELSE ~equal

\* the loop returns false at the first block of self with a bit other lacks;
\* otherwise `equal` ends true iff the block counts are the same and no block
\* of self differs from other's
is_proper_subset(self, other) ==
  IF self.num_bits > other.num_bits THEN FALSE
  ELSE LET nblks1 == compute_num_blocks(self.num_bits)
           nblks2 == compute_num_blocks(other.num_bits)
           equal == /\ nblks1 = nblks2
                    /\ \A i \in 1..nblks1 : self.vec[i] = other.vec[i]
       IN  IF ~is_subset_blocks(self, other, nblks1) THEN FALSE ELSE ~equal

RECURSIVE sum(_)
\* Iterator::sum
sum(seq) == IF seq = <<>> THEN 0 ELSE Head(seq) + sum(Tail(seq))

\* faulty variant of len: takes the length in bits for the number of members
len_num_bits(self) == self.num_bits

\* self.vec.iter().map(|x| x.count_ones() as usize).sum()
len(self) == sum([i \in 1..Len(self.vec) |-> count_ones(self.vec[i])])

is_empty(self) == len(self) = 0

\* the body of the property is_proper_subset_vec_prop for the vectors of a
\* TwoVec: vec2 is extended by vec1, both are collected, and the property
\* returns fwd /\ (len1 = len2 \/ ~bwd)
is_proper_subset_vec_prop(vec1, vec2) ==
  LET set1 == from_iter(vec1)
      set2 == from_iter(vec2 \o vec1)
  IN  [fwd |-> is_proper_subset(set1, set2),
       len1 |-> len(set1),
       len2 |-> len(set2),
       bwd |-> is_proper_subset(set2, set1)]

\* PartialEq::eq
eq(self, other) ==
  IF self.num_bits # other.num_bits THEN FALSE
  ELSE LET nblks == compute_num_blocks(self.num_bits)
       IN  slice_to(self.vec, nblks) = slice_to(other.vec, nblks)

\* Hash::hash: what the set feeds to the hasher (a slice hashes its length,
\* then its elements)
hash(self) ==
  LET nblks == compute_num_blocks(self.num_bits)
  IN  <<nblks>> \o slice_to(self.vec, nblks)

(***************************************************************************)
(* The iterator of iter.rs.  An Iter is a record [slice, num_bits, index,  *)
(* bit]; an Option<usize> is None or Some(x).                              *)
(***************************************************************************)
None == [some |-> FALSE]

Some(x) == [some |-> TRUE, val |-> x]

\* Iter::new, which is all BitSet::iter calls
Iter_new(set) == [slice |-> set.vec, num_bits |-> set.num_bits, index |-> 0, bit |-> 0]

\* faulty variant of find_lowest_set_bit: the mask also clears bit `from`
find_lowest_set_bit_above(blk, from) ==
  IF from >= NUM_BITS THEN None
  ELSE LET x == trailing_zeros(blk_and(blk, blk_not(shl(one, from + 1) - one)))
       IN  IF x = NUM_BITS THEN None ELSE Some(x)

\* the lowest set bit of blk at a position >= from
find_lowest_set_bit(blk, from) ==
  IF from >= NUM_BITS THEN None
  ELSE LET x == trailing_zeros(blk_and(blk, blk_not(shl(one, from) - one)))
       IN  IF x = NUM_BITS THEN None ELSE Some(x)

RECURSIVE next_same_bit(_)
\* faulty variant of next: leaves self.bit at the bit it has found
next_same_bit(self) ==
  IF self.index * NUM_BITS + self.bit < self.num_bits
  THEN LET found == find_lowest_set_bit(self.slice[self.index + 1], self.bit)
       IN  IF found.some
           THEN LET it1 == [self EXCEPT !.bit = found.val]
                IN  [it |-> it1,
                     ret |-> Some(self.index * NUM_BITS + found.val),
                     trail |-> <<<<self.index, self.bit>>, <<it1.index, it1.bit>>>>]
           ELSE LET r == next_same_bit([self EXCEPT !.index = @ + 1, !.bit = 0])
                IN  [r EXCEPT !.trail = <<<<self.index, self.bit>>>> \o @]
  ELSE [it |-> self, ret |-> None, trail |-> <<<<self.index, self.bit>>>>]

RECURSIVE next(_)
\* Iterator::next: [it |-> the iterator afterwards, ret |-> what it
\* returns, trail |-> the (index, bit) the loop condition has seen, pass by
\* pass, ending with the pair the call leaves]; one unfolding is one pass of
\* the while loop.  index * NUM_BITS + bit stays far below usize::MAX here,
\* so the checked arithmetic succeeds.
next(self) ==
  IF self.index * NUM_BITS + self.bit < self.num_bits
  THEN LET found == find_lowest_set_bit(self.slice[self.index + 1], self.bit)
       IN  IF found.some
           THEN LET it1 == [self EXCEPT !.bit = found.val + 1]
                IN  [it |-> it1,
                     ret |-> Some(self.index * NUM_BITS + found.val),
                     trail |-> <<<<self.index, self.bit>>, <<it1.index, it1.bit>>>>]
           ELSE LET r == next([self EXCEPT !.index = @ + 1, !.bit = 0])
                IN  [r EXCEPT !.trail = <<<<self.index, self.bit>>>> \o @]
  ELSE [it |-> self, ret |-> None, trail |-> <<<<self.index, self.bit>>>>]

(***************************************************************************)
(* The block indices the operations use.  X_in_range is true when every    *)
(* vec[i] and vec[..n] that operation X evaluates has i < vec.len(), resp. *)
(* n <= vec.len(), so that X does not panic on an index.                   *)
(***************************************************************************)
\* contains: self.vec[value / NUM_BITS], reached only for value < num_bits
contains_in_range(s, value) ==
  value >= s.num_bits \/ value \div NUM_BITS < Len(s.vec)

\* remove: contains_unchecked(value) and self.vec[value / NUM_BITS] &= ..,
\* reached only for value < num_bits; the loop of compact runs over
\* 0..self.vec.len()
remove_in_range(s, value) ==
  value >= s.num_bits \/ value \div NUM_BITS < Len(s.vec)

RECURSIVE subset_loop_in_range(_, _, _, _)
\* the loop of is_subset and of is_proper_subset from block i on: it reads
\* self.vec[i] and other.vec[i] and returns at the first block of self with
\* a bit other lacks
subset_loop_in_range(self, other, i, nblks) ==
  IF i >= nblks THEN TRUE
  ELSE IF i >= Len(self.vec) \/ i >= Len(other.vec) THEN FALSE
  ELSE IF blk_and(self.vec[i + 1], blk_not(other.vec[i + 1])) # zero THEN TRUE
  ELSE subset_loop_in_range(self, other, i + 1, nblks)

is_subset_in_range(self, other) ==
  \/ self.num_bits > other.num_bits
  \/ subset_loop_in_range(self, other, 0, compute_num_blocks(self.num_bits))

is_proper_subset_in_range(self, other) ==
  \/ self.num_bits > other.num_bits
  \/ subset_loop_in_range(self, other, 0, compute_num_blocks(self.num_bits))

\* eq: self.vec[..nblks] and other.vec[..nblks], for equal num_bits
eq_in_range(self, other) ==
  \/ self.num_bits # other.num_bits
  \/ LET nblks == compute_num_blocks(self.num_bits)
     IN  nblks <= Len(self.vec) /\ nblks <= Len(other.vec)

\* hash: self.vec[..nblks]
hash_in_range(self) == compute_num_blocks(self.num_bits) <= Len(self.vec)

\* the loop of bitor_fn, bitand_fn, bitxor_fn and sub_fn: lhs.vec[i] and
\* rhs_vec[i] for every i in 0..nblks
fn_in_range(lhs_vec, lhs_nbits, rhs_vec, rhs_nbits) ==
  LET nblks == compute_num_blocks(Min(lhs_nbits, rhs_nbits))
  IN  nblks <= Len(lhs_vec) /\ nblks <= Len(rhs_vec)

\* self op= rhs and the owning self op rhs: fn on the operands, swapped or not
op_impl_assign_in_range(self, rhs, c) ==
  IF swap_cond(c, self.num_bits, rhs.num_bits)
  THEN fn_in_range(rhs.vec, rhs.num_bits, self.vec, self.num_bits)
  ELSE fn_in_range(self.vec, self.num_bits, rhs.vec, rhs.num_bits)

\* &self op &rhs: fn on a clone of one operand and the vector of the other
op_impl_ref_in_range(self, rhs, c) ==
  IF swap_cond(c, self.num_bits, rhs.num_bits)
  THEN fn_in_range(clone(rhs).vec, rhs.num_bits, self.vec, self.num_bits)
  ELSE fn_in_range(clone(self).vec, self.num_bits, rhs.vec, rhs.num_bits)

\* self op= &rhs: &rhs.vec[self.vec.len()..] in the arm that extends, then fn
\* on the extended or truncated self.vec with the lengths exchanged
op_impl_assign_ref_in_range(self, rhs, c) ==
  IF swap_cond(c, self.num_bits, rhs.num_bits)
  THEN IF swap_cond(c, 0, 1)
       THEN /\ Len(self.vec) <= Len(rhs.vec)
            /\ fn_in_range(self.vec \o slice_from(rhs.vec, Len(self.vec)),
                           rhs.num_bits, rhs.vec, self.num_bits)
       ELSE fn_in_range(vec_truncate(self.vec, Len(rhs.vec)),
                        rhs.num_bits, rhs.vec, self.num_bits)
  ELSE fn_in_range(self.vec, self.num_bits, rhs.vec, rhs.num_bits)

\* Iter::next at the loop head (index, bit): self.slice[self.index], read
\* when the loop condition holds
next_in_range(self, index, bit) ==
  index * NUM_BITS + bit < self.num_bits => index < Len(self.slice)

(***************************************************************************)
(* The state machine.                                                      *)
(***************************************************************************)
Values == {v \in 0..MaxValue : v % NUM_BITS \in {0, NUM_BITS - 1}}

\* an index far above MaxValue: the 3173 of the unit tests
FarValue == 3173

\* indices for which value + 1 + NUM_BITS - 1 is no usize: the lowest, the
\* one below usize::MAX and usize::MAX, whose value + 1 is none either
OverflowValues == {usize_MAX - NUM_BITS + 1, usize_MAX - 1, usize_MAX}

\* the index sequences handed to extend and collect: any order, duplicates
SeqValues == {0, MaxValue}

Seqs == UNION {[1..k -> SeqValues] : k \in 0..MaxLen}

\* the set named w becomes s
Assign(w, s) ==
  /\ a' = IF w = "a" THEN s ELSE a
  /\ b' = IF w = "b" THEN s ELSE b

Get(w) == IF w = "a" THEN a ELSE b

Init ==
  /\ a = new
  /\ b = new
  /\ res = [op |-> "new"]
  /\ pc = "build"

New(w) ==
  /\ pc = "build"
  /\ Assign(w, new)
  /\ res' = [op |-> "new"]
  /\ UNCHANGED pc

WithCapacity(w, capacity) ==
  /\ pc = "build"
  /\ Assign(w, with_capacity(capacity))
  /\ res' = [op |-> "with_capacity"]
  /\ UNCHANGED pc

Insert(w, value) ==
  /\ pc = "build"
  /\ LET r == insert(Get(w), value)
     IN  /\ Assign(w, r.set)
         /\ res' = [op |-> "insert", ret |-> r.ret]
  /\ UNCHANGED pc

Remove(w, value) ==
  /\ pc = "build"
  /\ LET r == remove(Get(w), value)
     IN  /\ Assign(w, r.set)
         /\ res' = [op |-> "remove", ret |-> r.ret]
  /\ UNCHANGED pc

Clear(w) ==
  /\ pc = "build"
  /\ Assign(w, clear(Get(w)))
  /\ res' = [op |-> "clear"]
  /\ UNCHANGED pc

Extend(w, iter) ==
  /\ pc = "build"
  /\ Assign(w, extend(Get(w), iter))
  /\ res' = [op |-> "extend"]
  /\ UNCHANGED pc

FromIter(w, iter) ==
  /\ pc = "build"
  /\ Assign(w, from_iter(iter))
  /\ res' = [op |-> "from_iter"]
  /\ UNCHANGED pc

\* a.union_with(&b), i.e. a |= &b; res.self is a before the call
UnionWith ==
  /\ pc = "build"
  /\ a' = union_with(a, b)
  /\ res' = [op |-> "union_with", self |-> a]
  /\ UNCHANGED <<b, pc>>

\* a.intersect_with(&b), i.e. a &= &b
IntersectWith ==
  /\ pc = "build"
  /\ a' = intersect_with(a, b)
  /\ res' = [op |-> "intersect_with", self |-> a]
  /\ UNCHANGED <<b, pc>>

\* a.symmetric_difference_with(&b), i.e. a ^= &b
SymmetricDifferenceWith ==
  /\ pc = "build"
  /\ a' = symmetric_difference_with(a, b)
  /\ res' = [op |-> "symmetric_difference_with", self |-> a]
  /\ UNCHANGED <<b, pc>>

\* a.difference_with(&b), i.e. a -= &b
DifferenceWith ==
  /\ pc = "build"
  /\ a' = difference_with(a, b)
  /\ res' = [op |-> "difference_with", self |-> a]
  /\ UNCHANGED <<b, pc>>

\* &a | &b (union) and the owning a.clone() | b.clone(), which is
\* `self |= rhs; self`: the two results bitor_prop compares; beside them what
\* a would be after a |= b.clone() and after a |= &b.  BitAnd, BitXor and Sub
\* record the same four forms of their operators.
BitOr ==
  /\ pc = "build"
  /\ res' = [op |-> "bitor", set |-> union(a, b),
             owned |-> bitor(clone(a), clone(b)),
             assign |-> bitor_assign(a, clone(b)),
             assign_ref |-> bitor_assign_ref(a, b)]
  /\ pc' = "done"
  /\ UNCHANGED <<a, b>>

\* &a & &b (intersection) and a.clone() & b.clone(), as in bitand_prop
BitAnd ==
  /\ pc = "build"
  /\ res' = [op |-> "bitand", set |-> intersection(a, b),
             owned |-> bitand(clone(a), clone(b)),
             assign |-> bitand_assign(a, clone(b)),
             assign_ref |-> bitand_assign_ref(a, b)]
  /\ pc' = "done"
  /\ UNCHANGED <<a, b>>

\* &a ^ &b (symmetric_difference) and a.clone() ^ b.clone(), as in bitxor_prop
BitXor ==
  /\ pc = "build"
  /\ res' = [op |-> "bitxor", set |-> symmetric_difference(a, b),
             owned |-> bitxor(clone(a), clone(b)),
             assign |-> bitxor_assign(a, clone(b)),
             assign_ref |-> bitxor_assign_ref(a, b)]
  /\ pc' = "done"
  /\ UNCHANGED <<a, b>>

\* &a - &b (difference) and a.clone() - b.clone(), as in set_difference_prop
Sub ==
  /\ pc = "build"
  /\ res' = [op |-> "sub", set |-> difference(a, b),
             owned |-> sub(clone(a), clone(b)),
             assign |-> sub_assign(a, clone(b)),
             assign_ref |-> sub_assign_ref(a, b)]
  /\ pc' = "done"
  /\ UNCHANGED <<a, b>>

\* a == b
Eq ==
  /\ pc = "build"
  /\ res' = [op |-> "eq", ret |-> eq(a, b)]
  /\ pc' = "done"
  /\ UNCHANGED <<a, b>>

\* a.hash(state) and b.hash(state), each into a fresh hasher
Hash ==
  /\ pc = "build"
  /\ res' = [op |-> "hash", h1 |-> hash(a), h2 |-> hash(b)]
  /\ pc' = "done"
  /\ UNCHANGED <<a, b>>

\* a.is_subset(&b)
IsSubset ==
  /\ pc = "build"
  /\ res' = [op |-> "is_subset", ret |-> is_subset(a, b)]
  /\ pc' = "done"
  /\ UNCHANGED <<a, b>>

\* a.is_proper_subset(&b), with b.is_proper_subset(&a) and
\* a.is_proper_subset(&a) beside it
IsProperSubset ==
  /\ pc = "build"
  /\ res' = [op |-> "is_proper_subset", ret |-> is_proper_subset(a, b),
             conv |-> is_proper_subset(b, a), refl |-> is_proper_subset(a, a)]
  /\ pc' = "done"
  /\ UNCHANGED <<a, b>>

\* one run of is_proper_subset_vec_prop on the TwoVec (vec1, vec2): the
\* property is a function of its argument and starts with no set built; a
\* and b become its set1 and set2
IsProperSubsetVecProp(vec1, vec2) ==
  /\ pc = "build"
  /\ a = new
  /\ b = new
  /\ a' = from_iter(vec1)
  /\ b' = from_iter(vec2 \o vec1)
  /\ res' = [op |-> "is_proper_subset_vec_prop", vec1 |-> vec1, vec2 |-> vec2,
             prop |-> is_proper_subset_vec_prop(vec1, vec2)]
  /\ pc' = "done"

\* let mut it = a.iter(): the iterator borrows a, so no set changes while
\* it lives; res.items collects what next yields, res.nones counts the calls
\* that have returned None
Iter ==
  /\ pc = "build"
  /\ res' = [op |-> "iter", it |-> Iter_new(a), items |-> <<>>, nones |-> 0,
             ret |-> None, trail |-> <<>>]
  /\ pc' = "iter"
  /\ UNCHANGED <<a, b>>

\* it.next(), called until it has returned None MaxNone times; res.ret and
\* res.trail are of the last call
IterNext ==
  /\ pc = "iter"
  /\ LET r == next(res.it)
         nones == IF r.ret.some THEN res.nones ELSE res.nones + 1
     IN  /\ res' = [res EXCEPT !.it = r.it,
                               !.items = IF r.ret.some THEN Append(@, r.ret.val) ELSE @,
                               !.nones = nones,
                               !.ret = r.ret,
                               !.trail = r.trail]
         /\ pc' = IF nones >= MaxNone THEN "done" ELSE "iter"
  /\ UNCHANGED <<a, b>>

\* a.insert(value) as the last call on a; res.self is a before it
LastInsert(value) ==
  /\ pc = "build"
  /\ LET r == insert(a, value)
     IN  /\ a' = r.set
         /\ res' = [op |-> "last_insert", value |-> value, self |-> a,
                    ret |-> r.ret]
  /\ pc' = "done"
  /\ UNCHANGED b

\* a.remove(value) as the last call on a; res.self is a before it
LastRemove(value) ==
  /\ pc = "build"
  /\ LET r == remove(a, value)
     IN  /\ a' = r.set
         /\ res' = [op |-> "last_remove", value |-> value, self |-> a,
                    ret |-> r.ret]
  /\ pc' = "done"
  /\ UNCHANGED b

\* a.insert(value) for a value at the end of usize, as the last call on a,
\* on a build with or without overflow checks; a panic unwinds out of the
\* call and leaves a as the call had it, for a destructor or a
\* catch_unwind to see
InsertOverflow(value, overflow_checks) ==
  /\ pc = "build"
  /\ LET r == insert_usize(a, value, overflow_checks)
     IN  /\ a' = r.set
         /\ res' = [op |-> "insert_overflow", value |-> value, self |-> a,
                    overflow_checks |-> overflow_checks,
                    ret |-> r.ret, panicked |-> r.panicked]
         /\ pc' = IF r.panicked THEN "panicked" ELSE "done"
  /\ UNCHANGED b

\* a.insert(value); a.remove(value), the last calls on a; res.self is a
\* before them, res.ins and res.rem are what they returned
InsertRemove(value) ==
  /\ pc = "build"
  /\ LET r1 == insert(a, value)
         r2 == remove(r1.set, value)
     IN  /\ a' = r2.set
         /\ res' = [op |-> "insert_remove", value |-> value, self |-> a,
                    ins |-> r1.ret, rem |-> r2.ret]
  /\ pc' = "done"
  /\ UNCHANGED b

\* w.len()
Length(w) ==
  /\ pc = "build"
  /\ res' = [op |-> "len", w |-> w, ret |-> len(Get(w))]
  /\ pc' = "done"
  /\ UNCHANGED <<a, b>>

\* w.is_empty()
IsEmpty(w) ==
  /\ pc = "build"
  /\ res' = [op |-> "is_empty", w |-> w, ret |-> is_empty(Get(w))]
  /\ pc' = "done"
  /\ UNCHANGED <<a, b>>

Next ==
  \/ \E w \in {"a", "b"} : New(w)
  \/ \E w \in {"a", "b"} : WithCapacity(w, MaxValue + 1)
  \/ \E w \in {"a", "b"}, value \in Values : Insert(w, value)
  \/ \E w \in {"a", "b"}, value \in Values : Remove(w, value)
  \/ \E w \in {"a", "b"} : Clear(w)
  \/ \E w \in {"a", "b"}, iter \in Seqs : Extend(w, iter)
  \/ \E w \in {"a", "b"}, iter \in Seqs : FromIter(w, iter)
  \/ UnionWith
  \/ IntersectWith
  \/ SymmetricDifferenceWith
  \/ DifferenceWith
  \/ BitOr
  \/ BitAnd
  \/ BitXor
  \/ Sub
  \/ Eq
  \/ Hash
  \/ IsSubset
  \/ IsProperSubset
  \/ \E w \in {"a", "b"} : Length(w)
  \/ \E w \in {"a", "b"} : IsEmpty(w)
  \/ \E value \in Values : LastInsert(value)
  \/ \E value \in Values : LastRemove(value)
  \/ \E value \in Values \cup {FarValue} : InsertRemove(value)
  \/ \E value \in OverflowValues, overflow_checks \in BOOLEAN :
       InsertOverflow(value, overflow_checks)
  \/ Iter
  \/ IterNext
  \/ \E vec1 \in Seqs, vec2 \in Seqs \ {<<>>} : IsProperSubsetVecProp(vec1, vec2)

Spec == Init /\ [][Next]_vars

(***************************************************************************)
(* What the claims speak of.                                               *)
(***************************************************************************)
\* bit v of the blocks of vec is 1 (FALSE past the last block)
Bit(vec, v) ==
  /\ v \div NUM_BITS < Len(vec)
  /\ (vec[v \div NUM_BITS + 1] \div (2 ^ (v % NUM_BITS))) % 2 = 1

\* the members of s: the indices below num_bits whose bit is 1
Members(s) == {v \in 0..(s.num_bits - 1) : Bit(s.vec, v)}

RECURSIVE SeqOf(_)
\* the elements of a finite set of numbers, ascending
SeqOf(S) ==
  IF S = {} THEN <<>>
  ELSE LET m == CHOOSE x \in S : \A y \in S : x <= y
       IN  <<m>> \o SeqOf(S \ {m})

\* the set built from the index set S, by collect
SetOf(S) == from_iter(SeqOf(S))

\* ceil(n / d)
CeilDiv(n, d) == CHOOSE k \in 0..n : k * d >= n /\ (k = 0 \/ (k - 1) * d < n)

AlgebraOps == {"bitor", "bitand", "bitxor", "sub"}

\* every set a public operation has left or returned; a call that has
\* panicked has not returned, and a is then no set of the program any more
LiveSets ==
  (IF pc = "panicked" THEN {b} ELSE {a, b})
  \cup (IF res.op \in AlgebraOps
               THEN {res.set, res.owned, res.assign, res.assign_ref}
               ELSE {})

Compacted(s) == s.num_bits = 0 \/ Bit(s.vec, s.num_bits - 1)

\* C1: after any sequence of public mutating operations, every set has
\* num_bits = 0 or its bit num_bits - 1 set, so that num_bits is one more than
\* its largest member.
C1_Compaction ==
  \A s \in LiveSets :
    /\ Compacted(s)
    /\ s.num_bits = IF Members(s) = {} THEN 0
                    ELSE 1 + CHOOSE m \in Members(s) : \A v \in Members(s) : v <= m

\* a.intersect_with(&b) has cut a set whose highest member was MaxValue down
\* to the single member 0
C1_Witness ==
  /\ res.op = "intersect_with"
  /\ res.self.num_bits = MaxValue + 1
  /\ Members(b) = {0, NUM_BITS}
  /\ a.num_bits = 1

\* C2: after every public operation the number of stored blocks is
\* ceil(num_bits / NUM_BITS), also where an assign-by-reference operator has
\* extended or truncated the left operand's blocks.
C2_BlockCount ==
  \A s \in LiveSets : Len(s.vec) = CeilDiv(s.num_bits, NUM_BITS)

\* a.union_with(&b) has extended the blocks of a shorter a by those of b
C2_Witness ==
  /\ res.op = "union_with"
  /\ Len(res.self.vec) > 0
  /\ Len(res.self.vec) < Len(b.vec)
  /\ Len(a.vec) = Len(b.vec)

\* C3: after every public operation no stored block has a bit set at a
\* position >= num_bits.
C3_NoStaleBits ==
  \A s \in LiveSets :
    \A v \in s.num_bits..(Len(s.vec) * NUM_BITS - 1) : ~Bit(s.vec, v)

\* a remove has returned true and left both sets ending inside a block
C3_Witness ==
  /\ res.op = "remove"
  /\ res.ret
  /\ a.num_bits % NUM_BITS # 0
  /\ b.num_bits % NUM_BITS # 0
  /\ Len(a.vec) > 1

\* C4: both &a | &b and the owning a | b are == to the set built from the
\* union of the members of a and b.
C4_Union ==
  res.op = "bitor" =>
    LET u == SetOf(Members(a) \cup Members(b))
    IN  eq(res.set, u) /\ eq(res.owned, u)

\* a union where the left operand is the shorter one and both contribute
C4_Witness ==
  /\ res.op = "bitor"
  /\ 0 < a.num_bits
  /\ a.num_bits < b.num_bits
  /\ ~(Members(a) \subseteq Members(b))
  /\ eq(res.set, SetOf(Members(a) \cup Members(b)))

\* C5: both &a & &b and the owning a & b are == to the set built from the
\* intersection of the members of a and b.
C5_Intersection ==
  res.op = "bitand" =>
    LET u == SetOf(Members(a) \cap Members(b))
    IN  eq(res.set, u) /\ eq(res.owned, u)

\* an intersection whose only common member is far below both operands'
\* highest members
C5_Witness ==
  /\ res.op = "bitand"
  /\ Members(a) \cap Members(b) = {0}
  /\ a.num_bits > NUM_BITS
  /\ b.num_bits > a.num_bits
  /\ res.set.num_bits = 1

\* C6: both &a - &b and the owning a - b are == to the set built from the
\* members of a that are not members of b.
C6_Difference ==
  res.op = "sub" =>
    LET u == SetOf(Members(a) \ Members(b))
    IN  eq(res.set, u) /\ eq(res.owned, u)

\* a difference whose right operand has members above the left one's highest
C6_Witness ==
  /\ res.op = "sub"
  /\ 0 < a.num_bits
  /\ a.num_bits < b.num_bits
  /\ Members(a) \cap Members(b) # {}
  /\ Members(a) \ Members(b) # {}

\* C7: both &a ^ &b and the owning a ^ b are == to the set built from the
\* indices that are members of exactly one of a and b; for equal member sets
\* that is the empty set, with num_bits 0.
C7_SymmetricDifference ==
  res.op = "bitxor" =>
    LET u == SetOf((Members(a) \ Members(b)) \cup (Members(b) \ Members(a)))
    IN  /\ eq(res.set, u)
        /\ eq(res.owned, u)
        /\ Members(a) = Members(b) => res.set.num_bits = 0 /\ res.owned.num_bits = 0

\* the symmetric difference of two sets with the same members, in two blocks
C7_Witness ==
  /\ res.op = "bitxor"
  /\ Members(a) = Members(b)
  /\ a.num_bits > NUM_BITS
  /\ res.set.num_bits = 0

\* C8: a == b returns true if and only if a and b have the same members.
C8_Equality ==
  res.op = "eq" => (res.ret <=> Members(a) = Members(b))

\* two sets with the same members and different capacities compare equal
C8_Witness ==
  /\ res.op = "eq"
  /\ res.ret
  /\ a.cap # b.cap
  /\ a.num_bits > 0

\* C9: two sets with the same members feed the same blocks to the hasher.
C9_Hash ==
  res.op = "hash" /\ Members(a) = Members(b) => res.h1 = res.h2

\* two sets with the same members and different capacities have been hashed
C9_Witness ==
  /\ res.op = "hash"
  /\ Members(a) = Members(b)
  /\ a.cap # b.cap
  /\ a.num_bits > 0
  /\ res.h1 = res.h2

\* C10: a.is_subset(&b) returns true if and only if every member of a is a
\* member of b.
C10_IsSubset ==
  res.op = "is_subset" => (res.ret <=> Members(a) \subseteq Members(b))

\* a true subset with fewer bits than its superset
C10_Witness ==
  /\ res.op = "is_subset"
  /\ res.ret
  /\ 0 < a.num_bits
  /\ a.num_bits < b.num_bits

\* C11: a.is_proper_subset(&b) returns true if and only if every member of a
\* is a member of b and b has a member that a lacks; a set is no proper subset
\* of itself (two empty sets included), the empty set is one of every
\* non-empty set, and for x not in a, a is a proper subset of a with x added
\* and not conversely.
C11_IsProperSubset ==
  res.op = "is_proper_subset" =>
    /\ res.ret <=> (Members(a) \subseteq Members(b) /\ Members(b) \ Members(a) # {})
    /\ res.conv <=> (Members(b) \subseteq Members(a) /\ Members(a) \ Members(b) # {})
    /\ ~res.refl
    /\ Members(a) = Members(b) => ~res.ret
    /\ Members(a) = {} /\ Members(b) # {} => res.ret
    /\ \A x \in Values \ Members(a) :
         Members(b) = Members(a) \cup {x} => res.ret /\ ~res.conv

\* a proper subset with the same number of blocks and the same num_bits as
\* its superset: only a differing block tells them apart
C11_Witness ==
  /\ res.op = "is_proper_subset"
  /\ res.ret
  /\ a.num_bits = b.num_bits
  /\ a.num_bits > NUM_BITS

\* C12: for every index sequence vec1 and every non-empty vec2, with
\* set1 = set(vec1) and set2 = set(vec2 followed by vec1),
\* set1.is_proper_subset(&set2) is true, and set1.len() == set2.len() or
\* set2.is_proper_subset(&set1) is false.
C12_IsProperSubsetVecProp ==
  res.op = "is_proper_subset_vec_prop" =>
    /\ res.prop.fwd
    /\ res.prop.len1 = res.prop.len2 \/ ~res.prop.bwd

\* the distinct values of the sequence seq
Range(seq) == {seq[i] : i \in 1..Len(seq)}

\* C13: the values a.iter() yields are members of a, strictly ascending, and
\* once next has returned None they are exactly the members of a, each once;
\* for a set equal to the one collected from an index sequence (any order,
\* with duplicates) they are the distinct values of that sequence, ascending.
C13_IterRoundTrip ==
  res.op = "iter" =>
    /\ \A i \in 1..Len(res.items) : contains(a, res.items[i])
    /\ \A i \in 1..(Len(res.items) - 1) : res.items[i] < res.items[i + 1]
    /\ res.nones > 0 =>
         /\ res.items = SeqOf(Members(a))
         /\ \A seq \in Seqs \cup {<<MaxValue, NUM_BITS, MaxValue>>} :
              eq(a, from_iter(seq)) => res.items = SeqOf(Range(seq))

\* an iteration has ended after yielding the top bit of the first block, the
\* bottom bit of the second and the top bit of the second
C13_Witness ==
  /\ res.op = "iter"
  /\ pc = "done"
  /\ res.items = <<NUM_BITS - 1, NUM_BITS, MaxValue>>

\* C14: a.insert(value) returns true exactly when value was not a member of
\* a; afterwards contains(value) is true, every other index is a member
\* exactly if it was one, and num_bits is max(old num_bits, value + 1).
C14_Insert ==
  res.op = "last_insert" =>
    /\ res.ret <=> res.value \notin Members(res.self)
    /\ contains(a, res.value)
    /\ Members(a) \ {res.value} = Members(res.self) \ {res.value}
    /\ \A v \in 0..(MaxValue + NUM_BITS) :
         v # res.value => (contains(a, v) <=> contains(res.self, v))
    /\ a.num_bits = Max(res.self.num_bits, res.value + 1)

\* an insert above the highest member of a non-empty set has returned true
\* and added a block
C14_Witness ==
  /\ res.op = "last_insert"
  /\ res.ret
  /\ res.self.num_bits > 0
  /\ Len(a.vec) > Len(res.self.vec)

\* C15: a.remove(value) returns true exactly when value was a member of a;
\* then only that member is gone and every other index keeps its
\* membership; for an absent value (value >= num_bits, or its bit clear) it
\* returns false and leaves the blocks and num_bits as they were; removing a
\* member that is not the highest leaves num_bits unchanged.
C15_Remove ==
  res.op = "last_remove" =>
    /\ res.ret <=> res.value \in Members(res.self)
    /\ Members(a) = Members(res.self) \ {res.value}
    /\ (res.value >= res.self.num_bits \/ ~Bit(res.self.vec, res.value)) =>
         ~res.ret /\ a.vec = res.self.vec /\ a.num_bits = res.self.num_bits
    /\ (res.ret /\ res.value + 1 # res.self.num_bits) =>
         a.num_bits = res.self.num_bits

\* a remove has returned true for a member in the first block of a set whose
\* highest member is in the second
C15_Witness ==
  /\ res.op = "last_remove"
  /\ res.ret
  /\ res.value < NUM_BITS
  /\ res.self.num_bits > NUM_BITS
  /\ a.num_bits = res.self.num_bits

\* C16 as stated: from an empty set with 8-bit blocks, insert(3173) followed
\* by remove(3173) leaves num_bits equal to 8 (one block), not 3174.
C16_BackToOneBlock ==
  res.op = "insert_remove" /\ res.value = FarValue /\ res.self.num_bits = 0 =>
    a.num_bits = NUM_BITS

\* C16 as amended: from an empty set with 8-bit blocks, insert(3173) followed
\* by remove(3173) leaves num_bits equal to 0 and no block, not 3174.
C16_BackToEmpty ==
  res.op = "insert_remove" /\ res.value = FarValue /\ res.self.num_bits = 0 =>
    a.num_bits = 0 /\ a.vec = <<>>

\* 3173 has been inserted into an empty set and removed again
C16_Witness ==
  /\ res.op = "insert_remove"
  /\ res.value = FarValue
  /\ res.self = new
  /\ res.ins
  /\ res.rem
  /\ a.num_bits # FarValue + 1

\* C17: for a set S and an index x that is not a member of S, insert(x)
\* followed by remove(x) leaves a set that does not contain x and has the
\* num_bits and the blocks of S, so is == S, also when x is far above the
\* highest member of S.
C17_InsertRemoveInverse ==
  res.op = "insert_remove" /\ res.value \notin Members(res.self) =>
    /\ ~contains(a, res.value)
    /\ a.num_bits = res.self.num_bits
    /\ a.vec = res.self.vec
    /\ eq(a, res.self)

\* 3173 has been inserted into a set of two blocks and removed again
C17_Witness ==
  /\ res.op = "insert_remove"
  /\ res.value = FarValue
  /\ res.ins
  /\ Members(res.self) = {0, MaxValue}
  /\ Len(a.vec) = 2

\* C18 as stated: the symmetric difference keeps the longer operand's
\* length, num_bits(a ^ b) = max(num_bits(a), num_bits(b)).
C18_KeepsLongerLength ==
  res.op = "bitxor" =>
    /\ res.set.num_bits = Max(a.num_bits, b.num_bits)
    /\ res.owned.num_bits = Max(a.num_bits, b.num_bits)

\* C18 as amended: num_bits(a ^ b) is at most max(num_bits(a), num_bits(b)),
\* and equal to it exactly when the operands' lengths differ or both are 0;
\* for operands of the same length > 0 it is smaller.
C18_AtMostLongerLength ==
  res.op = "bitxor" =>
    LET longer == Max(a.num_bits, b.num_bits)
    IN  \A r \in {res.set, res.owned} :
          /\ r.num_bits <= longer
          /\ r.num_bits = longer <=> (a.num_bits # b.num_bits \/ longer = 0)

\* a symmetric difference of two sets of the same two-block length that ends
\* inside the first block
C18_Witness ==
  /\ res.op = "bitxor"
  /\ a.num_bits = b.num_bits
  /\ Len(a.vec) = 2
  /\ 0 < res.set.num_bits
  /\ res.set.num_bits < NUM_BITS

\* x and y have the same num_bits and the same blocks
SameBits(x, y) == x.num_bits = y.num_bits /\ x.vec = y.vec

\* C19: for each of |, &, ^ and -, what a op= &b leaves in a (also as
\* union_with, intersect_with, symmetric_difference_with, difference_with),
\* what a op= b leaves in a and what the owning a op b returns have the
\* num_bits and the blocks of &a op &b, whichever operand is longer.
C19_FormsAgree ==
  /\ res.op \in AlgebraOps =>
       /\ SameBits(res.assign_ref, res.set)
       /\ SameBits(res.assign, res.set)
       /\ SameBits(res.owned, res.set)
  /\ res.op = "union_with" => SameBits(a, bitor_ref(res.self, b))
  /\ res.op = "intersect_with" => SameBits(a, bitand_ref(res.self, b))
  /\ res.op = "symmetric_difference_with" => SameBits(a, bitxor_ref(res.self, b))
  /\ res.op = "difference_with" => SameBits(a, sub_ref(res.self, b))

\* a ^= &b for a shorter a with as many blocks as b: the swap arm, with
\* nothing to append
C19_Witness ==
  /\ res.op = "symmetric_difference_with"
  /\ Len(res.self.vec) = Len(b.vec)
  /\ 0 < res.self.num_bits
  /\ res.self.num_bits < b.num_bits
  /\ Members(a) # {}
  /\ SameBits(a, bitxor_ref(res.self, b))

\* the set res.w names
Observed == IF res.w = "a" THEN a ELSE b

\* C20: len() is the number of indices v with contains(v) true, a bit of a
\* stored block at or above num_bits never being counted, and is_empty() is
\* true exactly when num_bits = 0.
C20_Len ==
  /\ res.op = "len" =>
       /\ res.ret = Cardinality({v \in 0..(Len(Observed.vec) * NUM_BITS) :
                                  contains(Observed, v)})
       /\ res.ret = Cardinality(Members(Observed))
  /\ res.op = "is_empty" => (res.ret <=> Observed.num_bits = 0)

\* the length of a set with one member in each of two blocks, ending just
\* above the block boundary
C20_Witness ==
  /\ res.op = "len"
  /\ res.ret = 2
  /\ Observed.num_bits = NUM_BITS + 1

\* <<i1, b1>> is before <<i2, b2>> in the order of (block index, bit offset)
Before(p, q) == p[1] < q[1] \/ (p[1] = q[1] /\ p[2] < q[2])

\* C21: every pass of the loop of Iter::next moves (index, bit) strictly
\* forward, inside index <= number of blocks and bit <= NUM_BITS, also from
\* the offset NUM_BITS left behind by the top bit of a block; next yields at
\* most len() values, returns None only after exactly len() of them, and
\* once it has returned None every later call returns None.
C21_IterTerminates ==
  res.op = "iter" =>
    /\ \A i \in 1..(Len(res.trail) - 1) : Before(res.trail[i], res.trail[i + 1])
    /\ \A i \in 1..Len(res.trail) :
         res.trail[i][1] <= Len(res.it.slice) /\ res.trail[i][2] <= NUM_BITS
    /\ Len(res.items) <= len(a)
    /\ res.nones > 0 => ~res.ret.some /\ Len(res.items) = len(a)
    /\ (res.nones = 0 /\ res.trail # <<>>) => res.ret.some

\* an iteration over members at the top bits of two blocks has returned
\* None MaxNone times, its offset resting at NUM_BITS
C21_Witness ==
  /\ res.op = "iter"
  /\ pc = "done"
  /\ res.nones = MaxNone
  /\ res.items = <<NUM_BITS - 1, MaxValue>>
  /\ res.it.bit = NUM_BITS
  /\ ~res.ret.some

\* C22: for a value whose value + 1 or value + 1 + NUM_BITS - 1 is no usize,
\* insert(value) aborts and has changed neither the blocks nor num_bits; it
\* never returns.
C22_InsertAborts ==
  res.op = "insert_overflow" =>
    /\ res.panicked
    /\ a.vec = res.self.vec
    /\ a.num_bits = res.self.num_bits

\* the sets no call has left with a wrapped index computation: all but the
\* receiver of an insert that wrapped value + 1 or the block count
Unwrapped == IF pc = "panicked" /\ ~res.overflow_checks THEN {b} ELSE {a, b}

\* C23: in every state, for every pair of sets reached with index values
\* that do not overflow and for every argument, contains, remove, is_subset,
\* is_proper_subset, ==, hash, the four operators in each of their forms and
\* Iter::next use only block indices inside the vectors they read.
C23_IndexInRange ==
  /\ \A self \in Unwrapped :
       /\ hash_in_range(self)
       /\ \A value \in (0..(MaxValue + NUM_BITS)) \cup {FarValue} :
            contains_in_range(self, value) /\ remove_in_range(self, value)
       /\ \A other \in Unwrapped :
            /\ is_subset_in_range(self, other)
            /\ is_proper_subset_in_range(self, other)
            /\ eq_in_range(self, other)
            /\ \A c \in {"<", ">", "none"} :
                 /\ op_impl_assign_in_range(self, other, c)
                 /\ op_impl_ref_in_range(self, other, c)
                 /\ op_impl_assign_ref_in_range(self, other, c)
  /\ res.op = "iter" =>
       /\ next_in_range(res.it, res.it.index, res.it.bit)
       /\ \A i \in 1..Len(res.trail) :
            next_in_range(res.it, res.trail[i][1], res.trail[i][2])

\* a.is_subset(&b) has read both blocks of two sets that fill their last
\* block to the top bit
C23_Witness ==
  /\ res.op = "is_subset"
  /\ res.ret
  /\ a.num_bits = 2 * NUM_BITS
  /\ b.num_bits = 2 * NUM_BITS
  /\ Len(a.vec) = 2
  /\ Members(a) # Members(b)

====
